---- MODULE Spec2Model ----
(***************************************************************************)
(* A model of poll.py (ping_tracker): check_hosts, which runs fping over a *)
(* host list, parses its output and reconciles it with the request, and    *)
(* the main program, which reads the host list, calls check_hosts, reports *)
(* and appends the result to the ts table of an SQLite database.           *)
(*                                                                         *)
(* Text is modelled at the level of words: a line of fping's stdout is a   *)
(* sequence of words that were separated by single spaces.  Values of a    *)
(* DataFrame column that can hold several Python types are strings:        *)
(* reachable is "True", "False", "<NA>" or the raw lowercase word the      *)
(* regular expression captured; a float column is <<>> for NaN and <<v>>   *)
(* for the value v, in microseconds.  SQL values of the online column are  *)
(* written as SQL literals: "1", "0", "NULL" or a quoted text.             *)
(***************************************************************************)
EXTENDS Integers, Sequences, FiniteSets, TLC

VARIABLES
    pc,         \* position of the main program
    args,       \* the parsed command line
    hosts_db,   \* table hosts of the database: rows [id, hostname]
    ts_exists,  \* whether table ts exists in the database
    ts,         \* table ts: rows [timestamp, host_id, online, latency_ms]
    db,         \* the sqlite3 connection: "none", "open" or "closed"
    hosts,      \* the list of hosts to ping
    fping,      \* what the environment answered: [called, found, returncode, stdout]
    res,        \* what check_hosts returned or raised
    printed,    \* the messages printed by the main program, in order
    exit_code,  \* the exit code of the process, once pc = "exited"
    clock,      \* the wall clock, in seconds
    runs        \* the number of invocations before this one

vars == <<pc, args, hosts_db, ts_exists, ts, db, hosts, fping, res, printed,
          exit_code, clock, runs>>

-----------------------------------------------------------------------------
(* Bounds of the model *)

MaxHosts == 3          \* longest host list given to check_hosts
MaxLines == 2          \* most lines of fping output
MaxReturnCode == 5     \* largest exit status of fping
MaxRestarts == 1       \* invocations after the first

-----------------------------------------------------------------------------
(* Sequences *)

Range(s) == {s[i] : i \in 1..Len(s)}

SeqsUpTo(S, n) == UNION {[1..k -> S] : k \in 0..n}

RECURSIVE Without(_, _)
\* the elements of s that are not in the set S, in order
Without(s, S) ==
    IF s = <<>> THEN <<>>
    ELSE (IF Head(s) \in S THEN <<>> ELSE <<Head(s)>>) \o Without(Tail(s), S)

RECURSIVE Flatten(_)
Flatten(ss) == IF ss = <<>> THEN <<>> ELSE Head(ss) \o Flatten(Tail(ss))

-----------------------------------------------------------------------------
(* The regular expression of check_hosts, on words *)

\* the words that consist of letters a-z only
LowerWords == {"is", "alive", "unreachable", "duplicate", "a", "b", "c", "x"}

\* what ([a-z]+) captures at the start of word w; "" if it does not match
LowerRun(w) == IF w \in LowerWords THEN w ELSE ""

\* the words "(<digits>.<digits>", and what (\d+.\d+) captures in them
NumberWords == {"(1.5", "(20.25"}
NumberIn(w) == IF w = "(1.5" THEN "1.5" ELSE "20.25"

\* astype('float') of a captured number, in microseconds; NaN is <<>>
Float(s) == IF s = "1.5" THEN <<1500>> ELSE IF s = "20.25" THEN <<20250>> ELSE <<>>

RECURSIVE Join(_, _, _)
\* the words ws[p..q] with single spaces between them
Join(ws, p, q) ==
    IF p > q THEN ""
    ELSE IF p = q THEN ws[p]
    ELSE ws[p] \o " " \o Join(ws, p + 1, q)

\* The positions k >= p at which " is ([a-z]+)" matches: ws[k] is the word
\* "is" with a space before it, followed by a word starting in a-z.
IsAt(ws, p, atStart, k) ==
    /\ k >= p /\ k + 1 <= Len(ws)
    /\ ws[k] = "is"
    /\ (k > p \/ ~atStart)
    /\ LowerRun(ws[k + 1]) # ""

RECURSIVE FindallLine(_, _, _, _)
\* re.findall on the rest of a line: the words from p on.  atStart says that
\* the rest starts at the start of the line (else it starts with the space
\* before ws[p]).  The lazy (.*?) takes everything up to the first match of
\* " is ([a-z]+)"; the search goes on after the end of the match.
FindallLine(ws, p, atStart, add_elapsed) ==
    LET ks == {k \in p..Len(ws) : IsAt(ws, p, atStart, k)} IN
    IF ks = {} THEN <<>>
    ELSE
        LET k == CHOOSE x \in ks : \A y \in ks : x <= y
            machine == (IF atStart \/ k = p THEN "" ELSE " ") \o Join(ws, p, k - 1)
            hasMs == /\ add_elapsed
                     /\ k + 3 <= Len(ws)
                     /\ ws[k + 2] \in NumberWords
                     /\ ws[k + 3] = "ms)"
            m == [machine |-> machine,
                  reachable |-> LowerRun(ws[k + 1]),
                  ping |-> IF hasMs THEN NumberIn(ws[k + 2]) ELSE ""]
        IN <<m>> \o FindallLine(ws, IF hasMs THEN k + 4 ELSE k + 2, FALSE, add_elapsed)

RECURSIVE Findall(_, _)
\* re.findall(pattern, stdout): '.' matches no newline, so line by line
Findall(lines, add_elapsed) ==
    IF lines = <<>> THEN <<>>
    ELSE FindallLine(Head(lines), 1, TRUE, add_elapsed) \o Findall(Tail(lines), add_elapsed)

-----------------------------------------------------------------------------
(* check_hosts *)

\* FPingException.ret_codes
ret_codes == [c \in 0..4 |->
    CASE c = 0 -> "all hosts are reachable"
      [] c = 1 -> "some hosts are unreachable"
      [] c = 2 -> "some IP addresses or hostnames were not found"
      [] c = 3 -> "invalid command line arguments"
      [] c = 4 -> "system call failure"]

NoDf == <<>>
NoWarnings == <<>>

\* raise FPingNotFound()
RaiseFPingNotFound(warned) ==
    [raised |-> "FPingNotFound", exit_code |-> 0, message |-> "",
     df |-> NoDf, warnings |-> warned]

\* raise FPingException(exit_code): the constructor looks the message up in
\* ret_codes, and a status that is no key of it raises KeyError instead
RaiseFPingException(code, warned) ==
    IF code \in DOMAIN ret_codes
    THEN [raised |-> "FPingException", exit_code |-> code, message |-> ret_codes[code],
          df |-> NoDf, warnings |-> warned]
    ELSE [raised |-> "KeyError", exit_code |-> code, message |-> "",
          df |-> NoDf, warnings |-> warned]

\* df['reachable'].replace({'alive': True, 'unreachable': False}); any
\* other captured word stays as it is
ReplaceReachable(word) ==
    IF word = "alive" THEN "True"
    ELSE IF word = "unreachable" THEN "False"
    ELSE word

\* the DataFrame built from the matches, with the ts column; the ping
\* column is NaN throughout when add_elapsed is off (no such column)
ParsedDf(stati, now, add_elapsed) ==
    [i \in 1..Len(stati) |->
        [machine |-> stati[i].machine,
         reachable |-> ReplaceReachable(stati[i].reachable),
         ts |-> now,
         ping |-> IF add_elapsed THEN Float(stati[i].ping) ELSE <<>>]]

\* x in df.index
InIndex(df, x) == \E i \in 1..Len(df) : df[i].machine = x

\* MissingHosts with the two operands of `not in` exchanged
MissingHostsSwapped(hs, df) ==
    Without([i \in 1..Len(df) |-> df[i].machine], Range(hs))

\* [x for x in hosts if x not in df.index]
MissingHosts(hs, df) == Without(hs, {x \in Range(hs) : InIndex(df, x)})

\* missing_df: reachable <NA>, ts now, and NaN for ping after the concat
MissingDf(missing_hosts, now) ==
    [i \in 1..Len(missing_hosts) |->
        [machine |-> missing_hosts[i], reachable |-> "<NA>", ts |-> now, ping |-> <<>>]]

\* the warnings of the block that starts with `if (n_err := ...) != 0`
MissingWarnings(n_err, reverse_lookup, include_failed_dns) ==
    IF n_err = 0 THEN <<>>
    ELSE (IF reverse_lookup /\ include_failed_dns
          THEN <<[kind |-> "mutually_exclusive", n |-> 0]>> ELSE <<>>)
         \o (IF include_failed_dns /\ ~reverse_lookup
             THEN <<>> ELSE <<[kind |-> "no_result", n |-> n_err]>>)

\* Reconcile without the rule that reverse_lookup switches include_failed_dns off
ReconcileNoDemotion(hs, df, now, reverse_lookup, include_failed_dns) ==
    IF Len(hs) - Len(df) # 0 /\ include_failed_dns
    THEN df \o MissingDf(MissingHosts(hs, df), now)
    ELSE df

\* the DataFrame that leaves the block that starts with `if (n_err := ...) != 0`
Reconcile(hs, df, now, reverse_lookup, include_failed_dns) ==
    LET n_err == Len(hs) - Len(df)
        include == IF reverse_lookup /\ include_failed_dns THEN FALSE
                   ELSE include_failed_dns
    IN IF n_err # 0 /\ include
       THEN df \o MissingDf(MissingHosts(hs, df), now)
       ELSE df

\* the command line of fping, without the hosts
Cmd(timeout_ms, reverse_lookup, add_elapsed, ipv4_only) ==
    <<"fping">>
    \o (IF timeout_ms # <<>> THEN <<"--timeout=" \o ToString(timeout_ms[1])>> ELSE <<>>)
    \o (IF reverse_lookup THEN <<"-d">> ELSE <<>>)
    \o (IF add_elapsed THEN <<"-e">> ELSE <<>>)
    \o (IF ipv4_only THEN <<"--ipv4">> ELSE <<>>)

\* the warning on duplicated hosts
DuplicateWarnings(hs) ==
    LET n_dup == Len(hs) - Cardinality(Range(hs)) IN
    IF n_dup > 0 THEN <<[kind |-> "duplicated", n |-> n_dup]>> ELSE <<>>

\* check_hosts(hosts, ...) where env is what the environment answers:
\* found (which fping), returncode and stdout of fping, now (the clock)
check_hosts(hs, reverse_lookup, add_elapsed, include_failed_dns, env) ==
    LET warned == DuplicateWarnings(hs) IN
    IF ~env.found THEN RaiseFPingNotFound(warned)
    ELSE IF env.returncode >= 3 THEN RaiseFPingException(env.returncode, warned)
    ELSE
        LET stati == Findall(env.stdout, add_elapsed)
            df == ParsedDf(stati, env.now, add_elapsed)
        IN [raised |-> "", exit_code |-> 0, message |-> "",
            df |-> Reconcile(hs, df, env.now, reverse_lookup, include_failed_dns),
            warnings |-> warned \o MissingWarnings(Len(hs) - Len(df), reverse_lookup,
                                                   include_failed_dns)]

-----------------------------------------------------------------------------
(* The inputs *)

HostNames == {"a", "b", "c"}

\* lines fping can print; the last ones name a host nobody asked for, use a
\* word other than alive and unreachable, and do not have the form at all
FpingLines ==
    { <<"a", "is", "alive", "(1.5", "ms)">>,
      <<"b", "is", "unreachable">>,
      <<"x", "is", "alive">>,
      <<"a", "is", "duplicate">>,
      <<"ICMP", "Host", "Unreachable", "from", "c">> }

BoolFlags == [reverse : BOOLEAN, elapsed : BOOLEAN, exclude_failed : BOOLEAN]

\* args.timeout (default) and args.ipv6 (default) are not varied
DefaultTimeout == 50

NoArgs == [sqlite |-> FALSE, header_ok |-> FALSE, files |-> <<>>, reverse |-> FALSE,
           elapsed |-> FALSE, exclude_failed |-> FALSE, table |-> FALSE,
           summary |-> FALSE]
NoFping == [called |-> FALSE, found |-> FALSE, returncode |-> 0, stdout |-> <<>>,
            cmd |-> <<>>]
NoRes == [raised |-> "", exit_code |-> 0, message |-> "", df |-> NoDf,
          warnings |-> NoWarnings]

-----------------------------------------------------------------------------
(* check_hosts on its own: every input within the bounds *)

InitFn ==
    /\ pc = "call"
    /\ args = NoArgs
    /\ hosts_db = <<>> /\ ts_exists = FALSE /\ ts = <<>> /\ db = "none"
    /\ hosts = <<>> /\ fping = NoFping /\ res = NoRes
    /\ printed = <<>> /\ exit_code = 0 /\ clock = 1 /\ runs = 0

CallCheckHosts ==
    /\ pc = "call"
    /\ \E hs \in SeqsUpTo(HostNames, MaxHosts), f \in BoolFlags,
          found \in BOOLEAN, rc \in 0..MaxReturnCode,
          out \in SeqsUpTo(FpingLines, MaxLines) :
        /\ found \/ (rc = 0 /\ out = <<>>)
        /\ rc < 3 \/ out = <<>>
        /\ hosts' = hs
        /\ args' = [NoArgs EXCEPT !.reverse = f.reverse, !.elapsed = f.elapsed,
                                  !.exclude_failed = f.exclude_failed]
        /\ fping' = [called |-> TRUE, found |-> found, returncode |-> rc, stdout |-> out,
                     cmd |-> Cmd(<<DefaultTimeout>>, f.reverse, f.elapsed, TRUE) \o hs]
        /\ res' = check_hosts(hs, f.reverse, f.elapsed, ~f.exclude_failed,
                              [found |-> found, returncode |-> rc, stdout |-> out,
                               now |-> clock])
    /\ pc' = "returned"
    /\ UNCHANGED <<hosts_db, ts_exists, ts, db, printed, exit_code, clock, runs>>

NextFn == CallCheckHosts

SpecFn == InitFn /\ [][NextFn]_vars

-----------------------------------------------------------------------------
(* The main program *)

\* the tables hosts the database can hold: one hostname per id 1, 2, ...
HostTables == { <<"a">>, <<"a", "b">>, <<"a", "a">> }

\* the host files named on the command line, one list of hosts per file
HostFiles == { <<>>, << <<"a", "b">> >> }

\* what fping prints in a run of the main program
MainStdouts ==
    { <<>>,
      << <<"a", "is", "alive", "(1.5", "ms)">> >>,
      << <<"a", "is", "alive", "(1.5", "ms)">>, <<"b", "is", "unreachable">> >>,
      << <<"x", "is", "alive">>, <<"b", "is", "unreachable">> >>,
      << <<"a", "is", "duplicate">> >>,
      << <<"b", "is", "unreachable">>, <<"a", "is", "duplicate">> >> }

Flags == [reverse : BOOLEAN, elapsed : BOOLEAN, exclude_failed : BOOLEAN,
          table : BOOLEAN, summary : BOOLEAN]

WithFlags(a, f) ==
    [a EXCEPT !.reverse = f.reverse, !.elapsed = f.elapsed,
              !.exclude_failed = f.exclude_failed, !.table = f.table,
              !.summary = f.summary]

\* the command lines: --sqlite with a valid file, with a file that is no
\* SQLite database, together with host files, and host files alone
CommandLines ==
    {WithFlags([NoArgs EXCEPT !.sqlite = TRUE, !.header_ok = TRUE], f) : f \in Flags}
    \cup {[NoArgs EXCEPT !.sqlite = TRUE]}
    \cup {[NoArgs EXCEPT !.sqlite = TRUE, !.header_ok = TRUE, !.files = fs] :
            fs \in HostFiles \ {<<>>}}
    \cup {WithFlags([NoArgs EXCEPT !.files = fs], f) : fs \in HostFiles, f \in Flags}

Init ==
    /\ pc = "start"
    /\ args = NoArgs
    /\ \E names \in HostTables :
        hosts_db = [i \in 1..Len(names) |-> [id |-> i, hostname |-> names[i]]]
    /\ ts_exists = FALSE /\ ts = <<>> /\ db = "none"
    /\ hosts = <<>> /\ fping = NoFping /\ res = NoRes
    /\ printed = <<>> /\ exit_code = 0 /\ clock = 1 /\ runs = 0

\* exit(code) after printing msgs; an uncaught exception exits with 1 too
Exit(code, msgs) ==
    /\ pc' = "exited"
    /\ exit_code' = code
    /\ printed' = printed \o msgs

\* hosts_db['hostname'].to_list()
Hostnames(table) == [i \in 1..Len(table) |-> table[i].hostname]

\* "collect all hosts we need to ping"
Collect ==
    /\ pc = "start"
    /\ \E a \in CommandLines :
        /\ args' = a
        /\ IF a.sqlite
           THEN IF Len(a.files) > 0
                THEN /\ Exit(1, <<"ERROR: Must not pass additional hosts">>)
                     /\ UNCHANGED <<db, hosts>>
                ELSE IF ~a.header_ok
                THEN /\ Exit(1, <<"ERROR: Please pass a path to a valid SQLite 3 database">>)
                     /\ UNCHANGED <<db, hosts>>
                ELSE /\ db' = "open"
                     /\ hosts' = Hostnames(hosts_db)
                     /\ pc' = "collected"
                     /\ UNCHANGED <<exit_code, printed>>
           ELSE /\ hosts' = Flatten(a.files)
                /\ pc' = "collected"
                /\ UNCHANGED <<db, exit_code, printed>>
    /\ UNCHANGED <<hosts_db, ts_exists, ts, fping, res, clock, runs>>

\* what the except clauses of the main program print
ErrorMessages(r) ==
    IF r.raised = "FPingException"
    THEN <<"ERROR: fping returned with: " \o r.message>>
         \o (IF r.exit_code = 4
             THEN <<"ERROR: make sure fping has the right permissions">> ELSE <<>>)
    ELSE IF r.raised = "FPingNotFound"
    THEN <<"ERROR: fping was not found">>
    ELSE <<"Traceback: " \o r.raised>>

\* "ping all hosts": the call of check_hosts and its except clauses
Ping ==
    /\ pc = "collected"
    /\ \E found \in BOOLEAN, rc \in 0..MaxReturnCode, out \in MainStdouts :
        /\ found \/ (rc = 0 /\ out = <<>>)
        /\ rc < 3 \/ out = <<>>
        /\ fping' = [called |-> TRUE, found |-> found, returncode |-> rc, stdout |-> out,
                     cmd |-> Cmd(<<DefaultTimeout>>, args.reverse, args.elapsed, TRUE)
                             \o hosts]
        /\ res' = check_hosts(hosts, args.reverse, args.elapsed, ~args.exclude_failed,
                              [found |-> found, returncode |-> rc, stdout |-> out,
                               now |-> clock])
    /\ IF res'.raised = ""
       THEN pc' = "pinged" /\ UNCHANGED <<exit_code, printed>>
       ELSE Exit(1, ErrorMessages(res'))
    /\ UNCHANGED <<args, hosts_db, ts_exists, ts, db, hosts, clock, runs>>

\* df.reachable.sum() and (~df.reachable.fillna(False)).sum() need booleans
IsBoolean(v) == v \in {"True", "False", "<NA>"}

SummaryLine(df) ==
    LET up == {i \in 1..Len(df) : df[i].reachable = "True"}
        down == {i \in 1..Len(df) : df[i].reachable # "True"}
    IN ToString(Cardinality(up)) \o " hosts are up, "
       \o ToString(Cardinality(down)) \o " are down"

\* the table and the summary line
Report ==
    /\ pc = "pinged"
    /\ LET table == IF args.table THEN <<"table">> ELSE <<>> IN
       IF args.summary \/ ~args.table
       THEN IF \A i \in 1..Len(res.df) : IsBoolean(res.df[i].reachable)
            THEN /\ printed' = printed \o table \o <<SummaryLine(res.df)>>
                 /\ pc' = "reported"
                 /\ UNCHANGED exit_code
            ELSE Exit(1, table \o <<"Traceback: TypeError">>)
       ELSE /\ printed' = printed \o table
            /\ pc' = "reported"
            /\ UNCHANGED exit_code
    /\ UNCHANGED <<args, hosts_db, ts_exists, ts, db, hosts, fping, res, clock, runs>>

\* the value sqlite3 binds for a value of the reachable column
OnlineSql(v) ==
    IF v = "True" THEN "1"
    ELSE IF v = "False" THEN "0"
    ELSE IF v = "<NA>" THEN "NULL"
    ELSE "'" \o v \o "'"

RECURSIVE JoinHosts(_, _, _)
\* one row of df joined with the rows j, j+1, ... of table hosts on
\* hostname = machine, renamed to the columns of ts
JoinHosts(r, table, j) ==
    IF j > Len(table) THEN <<>>
    ELSE (IF table[j].hostname = r.machine
          THEN <<[timestamp |-> r.ts, host_id |-> table[j].id,
                  online |-> OnlineSql(r.reachable), latency_ms |-> r.ping]>>
          ELSE <<>>)
         \o JoinHosts(r, table, j + 1)

RECURSIVE DfSqlite(_, _, _)
\* df.join(hosts_db..., on='machine').dropna(subset='id'), from row i on
DfSqlite(df, table, i) ==
    IF i > Len(df) THEN <<>>
    ELSE JoinHosts(df[i], table, 1) \o DfSqlite(df, table, i + 1)

\* CheckOnline of a table that was created without the CHECK constraint
CheckOnlineDropped(v) == TRUE

\* ts_schema: CHECK (online IN (0, 1)), which NULL passes
CheckOnline(v) == v \in {"0", "1", "NULL"}

\* ts_schema: FOREIGN KEY(host_id) REFERENCES hosts(id), with foreign_keys=1
ForeignKey(id, table) == \E j \in 1..Len(table) : table[j].id = id

\* "store in the database if specified": the table is created if it is not
\* there, the rows are inserted in one transaction, and the connection is
\* closed; a row the schema refuses raises IntegrityError, uncaught
Store ==
    /\ pc = "reported"
    /\ args.sqlite
    /\ ts_exists' = TRUE
    /\ LET rows == DfSqlite(res.df, hosts_db, 1) IN
       IF \A i \in 1..Len(rows) :
              CheckOnline(rows[i].online) /\ ForeignKey(rows[i].host_id, hosts_db)
       THEN /\ ts' = ts \o rows
            /\ db' = "closed"
            /\ pc' = "stored"
            /\ UNCHANGED <<exit_code, printed>>
       ELSE /\ Exit(1, <<"Traceback: IntegrityError">>)
            /\ UNCHANGED <<ts, db>>
    /\ UNCHANGED <<args, hosts_db, hosts, fping, res, clock, runs>>

\* the end of the script (the CSV export touches nothing of the database)
Finish ==
    /\ pc = "stored" \/ (pc = "reported" /\ ~args.sqlite)
    /\ Exit(0, <<>>)
    /\ UNCHANGED <<args, hosts_db, ts_exists, ts, db, hosts, fping, res, clock, runs>>

\* the next invocation: a new process on the same database, later
Restart ==
    /\ pc = "exited"
    /\ runs < MaxRestarts
    /\ runs' = runs + 1
    /\ clock' = clock + 1
    /\ pc' = "start"
    /\ args' = NoArgs /\ db' = "none" /\ hosts' = <<>>
    /\ fping' = NoFping /\ res' = NoRes
    /\ printed' = <<>> /\ exit_code' = 0
    /\ UNCHANGED <<hosts_db, ts_exists, ts>>

Next == Collect \/ Ping \/ Report \/ Store \/ Finish \/ Restart

Spec == Init /\ [][Next]_vars

-----------------------------------------------------------------------------
(* Properties.  The words of the properties are defined here, apart from   *)
(* the operators of the model.                                             *)

\* check_hosts was called and returned a DataFrame
Returned == fping.called /\ res.raised = ""

\* the lines of the probe output of the form "<host> is alive" or
\* "<host> is unreachable", with or without a latency after it
IsStatusLine(l) ==
    /\ Len(l) \in {3, 5}
    /\ l[2] = "is"
    /\ l[3] \in {"alive", "unreachable"}
    /\ Len(l) = 5 => (l[4] \in NumberWords /\ l[5] = "ms)")

StatusLines == {i \in 1..Len(fping.stdout) : IsStatusLine(fping.stdout[i])}

\* the hosts the probe output reports on, and all the hosts it names
ReportedHosts == {fping.stdout[i][1] : i \in StatusLines}
NamedHosts == {fping.stdout[i][1] : i \in 1..Len(fping.stdout)}

Requested == Range(hosts)
AbsentHosts == Requested \ ReportedHosts

\* keepUnresolved as asked for, and as in effect after the conflict rule
KeepUnresolved == ~args.exclude_failed
KeepInEffect == KeepUnresolved /\ ~args.reverse

Placeholders == {i \in 1..Len(res.df) : res.df[i].reachable = "<NA>"}
Resolved == (1..Len(res.df)) \ Placeholders

HasWarning(kind) == \E i \in 1..Len(res.warnings) : res.warnings[i].kind = kind

\* C1 (as claimed): the result has one entry per distinct host of the probe
\* output, plus one per distinct requested host absent from it if
\* keepUnresolved is in effect, and never more than there are distinct
\* requested hosts.
C1_Claim ==
    Returned =>
        /\ Len(res.df) = Cardinality(ReportedHosts)
                         + (IF KeepInEffect THEN Cardinality(AbsentHosts) ELSE 0)
        /\ Len(res.df) <= Cardinality(Requested)

\* C2 (as claimed): every entry of the result has a requested host.
C2_Claim ==
    Returned => \A i \in 1..Len(res.df) : res.df[i].machine \in Requested

\* C2 (amended): every placeholder entry has a requested host, and every
\* other entry has a host that the probe output names.
C2_Amended ==
    Returned =>
        /\ \A i \in Placeholders : res.df[i].machine \in Requested
        /\ \A i \in Resolved : res.df[i].machine \in NamedHosts

\* C2: a result with a placeholder and with an entry for a host nobody asked for
C2_Witness ==
    /\ Returned
    /\ Placeholders # {}
    /\ \E i \in Resolved : res.df[i].machine \notin Requested

\* C3 (as claimed): with keepUnresolved and without reverse lookup, the
\* result ends with exactly one placeholder per distinct requested host
\* absent from the probe output, in the order of first occurrence in the
\* request, each unknown in reachable and latency and with the batch timestamp.
C3_Claim ==
    (Returned /\ KeepUnresolved /\ ~args.reverse) =>
        LET first == {i \in 1..Len(hosts) :
                        /\ hosts[i] \in AbsentHosts
                        /\ \A j \in 1..(i - 1) : hosts[j] # hosts[i]}
            n == Len(res.df) - Cardinality(first)
        IN /\ n >= 0
           /\ Placeholders = (n + 1)..Len(res.df)
           /\ \A i \in first :
                LET k == n + Cardinality({j \in first : j <= i}) IN
                /\ res.df[k].machine = hosts[i]
                /\ res.df[k].ping = <<>>
                /\ res.df[k].ts = clock

\* C4 (as claimed): without keepUnresolved, a non-empty set of requested
\* hosts absent from the probe output gives a warning that carries the size
\* of that set, and no entry for any of them.
C4_Claim ==
    (Returned /\ ~KeepUnresolved /\ AbsentHosts # {}) =>
        /\ \E i \in 1..Len(res.warnings) :
              /\ res.warnings[i].kind = "no_result"
              /\ res.warnings[i].n = Cardinality(AbsentHosts)
        /\ \A i \in 1..Len(res.df) : res.df[i].machine \notin AbsentHosts

\* the warnings without those of the given kind
WarningsBut(ws, kind) == Without(ws, {w \in Range(ws) : w.kind = kind})

\* C5: with reverseDnsLookup, a call with keepUnresolved returns what the
\* call with the same arguments without keepUnresolved returns: it fails in
\* the same cases only, adds no placeholder, and differs by the warning
\* about the conflict alone.
C5_Theorem ==
    (fping.called /\ args.reverse /\ KeepUnresolved) =>
        LET other == check_hosts(hosts, TRUE, args.elapsed, FALSE,
                                 [found |-> fping.found, returncode |-> fping.returncode,
                                  stdout |-> fping.stdout, now |-> clock])
        IN /\ res.raised = other.raised
           /\ res.raised = "" <=> (fping.found /\ fping.returncode < 3)
           /\ res.df = other.df
           /\ Placeholders = {}
           /\ WarningsBut(res.warnings, "mutually_exclusive") = other.warnings

\* C5: such a call that left a requested host out and warned about the conflict
C5_Witness ==
    /\ Returned /\ args.reverse /\ KeepUnresolved
    /\ AbsentHosts # {}
    /\ Len(res.df) > 0
    /\ HasWarning("mutually_exclusive")

\* C8 (as claimed): the parser makes one record per line of the form
\* "<host> is alive" or "<host> is unreachable" and none for any other
\* line, so that reachable is true or false in every parsed record.
C8_Claim ==
    Returned =>
        /\ Cardinality(Resolved) = Cardinality(StatusLines)
        /\ \A i \in Resolved : res.df[i].reachable \in {"True", "False"}

\* the rows the current invocation has written to ts
NewRows == {k \in 1..Len(ts) : ts[k].timestamp = clock}

Printed(msg) == \E i \in 1..Len(printed) : printed[i] = msg

\* C6 (as claimed): fping's exit status 0, 1 or 2 leads to a result; every
\* status >= 3 raises FPingException with the status and a cause, which the
\* main program reports before it exits with code 1, no row written; status
\* 4 prints the advice on permissions too.
C6_Claim ==
    (fping.called /\ fping.found) =>
        /\ fping.returncode \in 0..2 => res.raised = ""
        /\ fping.returncode >= 3 =>
            /\ res.raised = "FPingException"
            /\ res.exit_code = fping.returncode
            /\ res.message # ""
            /\ pc = "exited" /\ exit_code = 1
            /\ Printed("ERROR: fping returned with: " \o res.message)
            /\ NewRows = {}
            /\ fping.returncode = 4 =>
                  Printed("ERROR: make sure fping has the right permissions")

\* C7 (as claimed): when the process has terminated, a connection it opened
\* is closed.
C7_Claim == (pc = "exited" /\ db # "none") => db = "closed"

\* the pairs of a result and a row of table hosts with its hostname
Matches == {<<i, j>> \in (1..Len(res.df)) \X (1..Len(hosts_db)) :
              hosts_db[j].hostname = res.df[i].machine}

\* C9: every row of ts has online 0, 1 or NULL, and the rows an invocation
\* has stored have 1 where reachable is true, 0 where it is false and NULL
\* where it is unknown.
C9_Theorem ==
    /\ \A k \in 1..Len(ts) : ts[k].online \in {"0", "1", "NULL"}
    /\ pc = "stored" =>
        \A v \in {<<"True", "1">>, <<"False", "0">>, <<"<NA>", "NULL">>} :
            Cardinality({k \in NewRows : ts[k].online = v[2]})
            = Cardinality({m \in Matches : res.df[m[1]].reachable = v[1]})

\* C9: the table holds a 1, a 0 and a NULL after an invocation stored rows
C9_Witness ==
    /\ pc = "stored"
    /\ NewRows # {}
    /\ \A o \in {"0", "1", "NULL"} : \E k \in 1..Len(ts) : ts[k].online = o

\* the results whose host is a hostname of table hosts
MatchedResults == {i \in 1..Len(res.df) : \E j \in 1..Len(hosts_db) :
                      hosts_db[j].hostname = res.df[i].machine}

\* C10 (as claimed): the store writer never fails on a result, appends
\* exactly one row for each result whose host is in table hosts and none for
\* the others, and leaves the rows that were there as they are.
C10_Claim ==
    [][(pc = "reported" /\ args.sqlite) =>
          /\ pc' = "stored"
          /\ Len(ts') = Len(ts) + Cardinality(MatchedResults)
          /\ SubSeq(ts', 1, Len(ts)) = ts
          /\ \A k \in (Len(ts) + 1)..Len(ts') :
                \E i \in MatchedResults :
                    /\ ts'[k].timestamp = res.df[i].ts
                    /\ ts'[k].online = OnlineSql(res.df[i].reachable)
                    /\ ts'[k].latency_ms = res.df[i].ping]_vars

====
